---------------------------- MODULE Spec2Model ----------------------------
(***************************************************************************)
(* Model of the HT-Grouper q-library core:                                 *)
(*   - Q::Pauli            (src/src/q-library/pauli.h)                     *)
(*   - Q::findHTCircuit    (src/src/q-library/find_ht_circuit.h)           *)
(* Bitstrings (uint64_t) are modelled as the set of positions of their 1   *)
(* bits, so that &, |, ^, ~, << and popcount keep their 64 bit meaning.    *)
(* Strings are sequences of one-character strings.                         *)
(***************************************************************************)
EXTENDS Integers, Sequences, FiniteSets, TLC

VARIABLES
    p,                  \* Pauli specification: the operator under test
    last,               \* Pauli specification: the operation that was applied last
    graph,              \* findHTCircuit argument: [n, adj]
    RS,                 \* findHTCircuit argument: sequence of Pauli operators
    overload,           \* "fixed" (template<int numQubits>) or "dynamic"
    pc,                 \* position inside the running findHTCircuit call
    lhs,                \* the simplified symbolic equations
    model,              \* the GRBModel: variables and constraints added so far
    solution,           \* the values the solver assigned (GRB_DoubleAttr_X)
    singleQubitLayer,   \* the gate list being filled by the read-back loop
    result,             \* the returned std::optional
    readIdx,            \* the index i of the read-back loop
    threw,              \* the solver raised an exception during this call
    outcome             \* per overload: what the finished call reported

pauliVars == <<p, last>>
htVars == <<graph, RS, overload, pc, lhs, model, solution, singleQubitLayer,
            readIdx, result, threw, outcome>>
vars == <<p, last, graph, RS, overload, pc, lhs, model, solution,
          singleQubitLayer, readIdx, result, threw, outcome>>

(***************************************************************************)
(* Bounds of the model                                                     *)
(***************************************************************************)
\* longest Pauli string the Pauli specification constructs
MaxLen == 2

(***************************************************************************)
(* Program constants                                                       *)
(***************************************************************************)
\* width of Pauli::Bitstring (uint64_t)
WordBits == 64
\* modulus of the BinaryPhase value type
PhaseModulus == 4

(***************************************************************************)
(* uint64_t arithmetic on bit sets                                         *)
(***************************************************************************)
Word == 0 .. (WordBits - 1)

BitAnd(a, b) == a \cap b
BitOr(a, b) == a \cup b
BitXor(a, b) == (a \ b) \cup (b \ a)
\* 1ULL << qubit
Shl1(qubit) == {qubit} \cap Word
\* -value converted to uint64_t, for value in {0, 1}: 0 or all ones
Neg(value) == IF value = 0 THEN {} ELSE Word
popcount(a) == Cardinality(a)

(***************************************************************************)
(* BinaryPhase (binary_phase.h is not part of the sources: modelled from   *)
(* the specification as the additive group of integers mod 4)              *)
(***************************************************************************)
BinaryPhase(k) == k % PhaseModulus
PhaseAdd(a, b) == (a + b) % PhaseModulus
PhaseSub(a, b) == (a - b) % PhaseModulus
PhaseToString(ph) ==
    CASE ph = 0 -> <<>>
      [] ph = 1 -> <<"i">>
      [] ph = 2 -> <<"-">>
      [] ph = 3 -> <<"-", "i">>

(***************************************************************************)
(* Q::Pauli                                                                *)
(***************************************************************************)
\* Pauli() = default: r{}, s{}, n{1}, phase
DefaultPauli == [r |-> {}, s |-> {}, n |-> 1, phase |-> BinaryPhase(0)]
\* explicit Pauli(int n)
IdentityPauli(n) == [r |-> {}, s |-> {}, n |-> n, phase |-> BinaryPhase(0)]

x(op, qubit) == IF qubit \in op.r THEN 1 ELSE 0
z(op, qubit) == IF qubit \in op.s THEN 1 ELSE 0

setX(op, qubit, value) ==
    [op EXCEPT !.r = BitXor(op.r, BitAnd(BitXor(Neg(value), op.r), Shl1(qubit)))]

setZ(op, qubit, value) ==
    [op EXCEPT !.s = BitXor(op.s, BitAnd(BitXor(Neg(value), op.r), Shl1(qubit)))]

getYPhaseAll(op) == BinaryPhase(popcount(BitOr(op.r, op.s)))
getYPhase(op) == BinaryPhase(popcount(BitAnd(op.r, op.s)))

getPhase(op) == PhaseSub(op.phase, getYPhase(op))
getXZPhase(op) == op.phase

increasePhase(op, phaseInc) == [op EXCEPT !.phase = PhaseAdd(op.phase, phaseInc)]
decreasePhase(op, phaseDec) == [op EXCEPT !.phase = PhaseSub(op.phase, phaseDec)]

pauliWeight(op) == popcount(BitOr(op.r, op.s))
identityCount(op) == op.n - pauliWeight(op)

SingleX(n, qubit) == setX(IdentityPauli(n), qubit, 1)
SingleZ(n, qubit) == setZ(IdentityPauli(n), qubit, 1)

\* std::array<char, 4> c{ 'I','X','Z','Y' }, indexed from 0
PauliChars == <<"I", "X", "Z", "Y">>

toStringSwapped(op) ==
    [i \in 1 .. op.n |-> PauliChars[z(op, i - 1) + x(op, i - 1) * 2 + 1]]
toString(op) ==
    [i \in 1 .. op.n |-> PauliChars[x(op, i - 1) + z(op, i - 1) * 2 + 1]]

\* the loop of fromStringOperator over the characters str[1..k]
RECURSIVE fromStringLoop(_, _, _)
fromStringLoop(op, str, k) ==
    IF k = 0 THEN op
    ELSE LET prev == fromStringLoop(op, str, k - 1)
             c == str[k]
             i == k - 1
         IN  CASE c = "X" -> [prev EXCEPT !.r = BitOr(prev.r, Shl1(i))]
               [] c = "Y" -> [prev EXCEPT !.r = BitOr(prev.r, Shl1(i)),
                                          !.s = BitOr(prev.s, Shl1(i))]
               [] c = "Z" -> [prev EXCEPT !.s = BitOr(prev.s, Shl1(i))]
               [] OTHER -> prev

fromStringOperator(op, str) ==
    fromStringLoop([op EXCEPT !.n = Len(str)], str, Len(str))

starts_with(str, prefix) ==
    /\ Len(str) >= Len(prefix)
    /\ SubSeq(str, 1, Len(prefix)) = prefix

substr(str, pos) == SubSeq(str, pos + 1, Len(str))

\* Pauli::Pauli(std::string_view)
PauliFromString(pauliString) ==
    LET d == DefaultPauli
        parsed ==
            IF starts_with(pauliString, <<"i">>)
            THEN fromStringOperator(increasePhase(d, 1), substr(pauliString, 1))
            ELSE IF starts_with(pauliString, <<"-", "i">>)
            THEN fromStringOperator(increasePhase(d, 3), substr(pauliString, 2))
            ELSE IF starts_with(pauliString, <<"-">>)
            THEN fromStringOperator(increasePhase(d, 2), substr(pauliString, 1))
            ELSE fromStringOperator(d, pauliString)
    IN  increasePhase(parsed, getYPhase(parsed))

commutatorOneSided(p1, p2) == popcount(BitAnd(p1.r, p2.s)) % 2
commutator(p1, p2) ==
    popcount(BitXor(BitAnd(p1.r, p2.s), BitAnd(p2.r, p1.s))) % 2

\* std::formatter<Q::Pauli>::format
FormatPauli(op) ==
    (IF getPhase(op) # BinaryPhase(0) THEN PhaseToString(getPhase(op)) ELSE <<>>)
        \o toString(op)

(***************************************************************************)
(* findHTCircuit: symbols, equations and their translation for the solver  *)
(***************************************************************************)
\* GRB_OPTIMAL, the status the code compares against
StatusOptimal == 2
\* bounds of the integer dummy variables: addVar(-1000, 1000, ...)
DummyLb == -1000
DummyUb == 1000

Digits == <<"0", "1", "2", "3", "4", "5", "6", "7", "8", "9">>

\* std::to_string(i) for i >= 0
RECURSIVE to_string(_)
to_string(i) ==
    IF i < 10 THEN <<Digits[i + 1]>>
    ELSE to_string(i \div 10) \o <<Digits[(i % 10) + 1]>>

\* c - '0' for a digit character c
MinusZero(c) == CHOOSE d \in 0 .. 9 : Digits[d + 1] = c

\* the names of the four blocks, in the order of aVars
BlockNames == << <<"a", "x", "x">>, <<"a", "x", "z">>,
                 <<"a", "z", "x">>, <<"a", "z", "z">> >>
Blocks == 0 .. 3

\* generateSymbolVector(numQubits, name)[i]: the symbol name<i>
SymbolName(block, i) == BlockNames[block + 1] \o to_string(i)

\* the lambda getVar: a solver variable is <<index into aVars, index into the vector>>
getVar(name) ==
    << (IF name[2] = "z" THEN 2 ELSE 0) + (IF name[3] = "z" THEN 1 ELSE 0),
       MinusZero(name[4]) >>

\* R(i, j) = RS[j].x(i), S(i, j) = RS[j].z(i); RS is indexed from 1 in the model
RMatrix(rs, i, j) == x(rs[j + 1], i)
SMatrix(rs, i, j) == z(rs[j + 1], i)

\* The summands of entry (i, j) of
\*   adjacencyMatrix * (Axx * R + Axz * S) + Azx * R + Azz * S
\* as <<integer coefficient, symbol>>, Axx .. Azz being diagonal
Summands(g, rs, i, j) ==
    [t \in 1 .. (2 * g.n + 2) |->
        IF t <= 2 * g.n
        THEN LET k == (t - 1) \div 2
             IN  IF (t - 1) % 2 = 0
                 THEN <<g.adj[i][k] * RMatrix(rs, k, j), SymbolName(0, k)>>
                 ELSE <<g.adj[i][k] * SMatrix(rs, k, j), SymbolName(1, k)>>
        ELSE IF t = 2 * g.n + 1
        THEN <<RMatrix(rs, i, j), SymbolName(2, i)>>
        ELSE <<SMatrix(rs, i, j), SymbolName(3, i)>>]

IsNonZero(summand) == summand[1] # 0

\* simplified(): the Term normal form. Every coefficient is 0 or 1 and no
\* symbol occurs twice in one entry, so the term is a sum of variables
simplified(summands) ==
    LET kept == SelectSeq(summands, IsNonZero)
    IN  [numbers |-> <<>>,
         variables |-> [t \in 1 .. Len(kept) |-> kept[t][2]],
         products |-> <<>>]

\* the equations, one per (qubit, operator)
LhsMatrix(g, rs, numOperatorsPerSet) ==
    [e \in (0 .. (g.n - 1)) \X (0 .. (numOperatorsPerSet - 1)) |->
        simplified(Summands(g, rs, e[1], e[2]))]

RECURSIVE SumSeq(_)
SumSeq(s) == IF s = <<>> THEN 0 ELSE Head(s) + SumSeq(Tail(s))

\* the lambda toGRBLinExpression: a constant plus a sum of solver variables
toGRBLinExpression(t) ==
    [const |-> SumSeq(t.numbers),
     vars |-> [k \in 1 .. Len(t.variables) |-> getVar(t.variables[k])]]

(***************************************************************************)
(* The solver: binary variables, one quadratic constraint per qubit, one   *)
(* linear constraint with a bounded integer dummy variable per equation    *)
(***************************************************************************)
\* values of (axx, axz, azx, azz), GRB_BINARY
BinaryValues == [1 .. 4 -> {0, 1}]

\* addQConstr(axx * azz + axz * azx == 1)
QConstrAtLeast(v) == v[1] * v[4] + v[2] * v[3] >= 1
QConstr(v) == v[1] * v[4] + v[2] * v[3] = 1

GateChoices == {v \in BinaryValues : QConstr(v)}

\* the value of solver variable var under the assignment a (qubit i at a[i + 1])
VarValue(a, var) == a[var[2] + 1][var[1] + 1]

RECURSIVE ExprSum(_, _, _)
ExprSum(a, expr, k) ==
    IF k = 0 THEN expr.const
    ELSE ExprSum(a, expr, k - 1) + VarValue(a, expr.vars[k])

ExprValue(a, expr) == ExprSum(a, expr, Len(expr.vars))

\* addConstr(expr * 0.5 == dummy) with an integer dummy in DummyLb .. DummyUb
LinConstr(a, expr) ==
    LET v == ExprValue(a, expr)
    IN  /\ v % 2 = 0
        /\ (v \div 2) \in DummyLb .. DummyUb

\* the largest qubit index among the variables of a constraint (-1: none)
RECURSIVE MaxIndex(_, _)
MaxIndex(expr, k) ==
    IF k = 0 THEN -1
    ELSE LET m == MaxIndex(expr, k - 1)
             i == expr.vars[k][2]
         IN  IF i > m THEN i ELSE m

\* The assignments of the first k qubits that satisfy the quadratic
\* constraints and every linear constraint whose variables they cover.
\* For k = numQubits this is the set of all feasible points of the model,
\* enumerated qubit by qubit.
RECURSIVE PartialSolutions(_, _, _)
PartialSolutions(constrs, ready, k) ==
    IF k = 0 THEN {a \in {<<>>} : \A e \in DOMAIN constrs :
                                     ready[e] = -1 => LinConstr(a, constrs[e])}
    ELSE {a \in {Append(b, v) : b \in PartialSolutions(constrs, ready, k - 1),
                                v \in GateChoices} :
             \A e \in DOMAIN constrs :
                 ready[e] = k - 1 => LinConstr(a, constrs[e])}

FeasiblePoints(mdl) ==
    LET ready == [e \in DOMAIN mdl.constrs |->
                     MaxIndex(mdl.constrs[e], Len(mdl.constrs[e].vars))]
    IN  PartialSolutions(mdl.constrs, ready, mdl.numVars)

\* model.get(GRB_IntAttr_Status) after model.optimize(): GRB_OPTIMAL exactly
\* when the model has a feasible point (the objective is constant), and some
\* other status (infeasible, ...) when it has none
Status(mdl) ==
    IF FeasiblePoints(mdl) # {} THEN StatusOptimal ELSE StatusOptimal + 1

\* GRBModel model{ env }
EmptyModel == [numVars |-> 0, constrs |-> <<>>]

\* BinaryCliffordGate{ axx, axz, azx, azz }
BinaryCliffordGate(v) == [axx |-> v[1], axz |-> v[2], azx |-> v[3], azz |-> v[4]]
DefaultGate == [axx |-> 0, axz |-> 0, azx |-> 0, azz |-> 0]

\* std::optional: std::nullopt, and an optional holding a gate list
nullopt == [has_value |-> FALSE, value |-> <<>>]
Some(gates) == [has_value |-> TRUE, value |-> gates]

\* what a caller has seen of an overload: nothing yet
Pending == [report |-> "pending", numEqs |-> 0]

(***************************************************************************)
(* findHTCircuit as a state machine                                        *)
(***************************************************************************)
HTIdle ==
    /\ overload = "none"
    /\ pc = "idle"
    /\ lhs = <<>>
    /\ model = EmptyModel
    /\ solution = <<>>
    /\ singleQubitLayer = <<>>
    /\ result = nullopt
    /\ threw = FALSE
    /\ readIdx = 0
    /\ outcome = [fixed |-> Pending, dynamic |-> Pending]

\* template<int numQubits> findHTCircuit: numOperatorsPerSet = numQubits.
\* RS[j] is read for every j < numQubits; with fewer operators in RS that
\* read is out of range and undefined, so the overload is called only with
\* at least numQubits operators
CallFixed ==
    /\ pc = "idle"
    /\ outcome.fixed = Pending
    /\ Len(RS) >= graph.n
    /\ overload' = "fixed"
    /\ lhs' = LhsMatrix(graph, RS, graph.n)
    /\ pc' = "try"
    /\ UNCHANGED <<p, last, graph, RS, model, solution, singleQubitLayer,
                   readIdx, result, threw, outcome>>

\* findHTCircuit(const Graph<>&, auto RS): numOperatorsPerSet = RS.size()
CallDynamic ==
    /\ pc = "idle"
    /\ outcome.dynamic = Pending
    /\ overload' = "dynamic"
    /\ lhs' = LhsMatrix(graph, RS, Len(RS))
    /\ pc' = "try"
    /\ UNCHANGED <<p, last, graph, RS, model, solution, singleQubitLayer,
                   readIdx, result, threw, outcome>>

\* GRBEnv env{ true }; env.set; env.start(); GRBModel model{ env }; setObjective
StartEnv ==
    /\ pc = "try"
    /\ model' = EmptyModel
    /\ pc' = "env"
    /\ UNCHANGED <<p, last, graph, RS, overload, lhs, solution,
                   singleQubitLayer, readIdx, result, threw, outcome>>

\* the loop adding four binary variables and one quadratic constraint per qubit
AddVars ==
    /\ pc = "env"
    /\ model' = [model EXCEPT !.numVars = graph.n]
    /\ pc' = "vars"
    /\ UNCHANGED <<p, last, graph, RS, overload, lhs, solution,
                   singleQubitLayer, readIdx, result, threw, outcome>>

\* the dummy variables and one linear constraint per entry of lhs
AddConstrs ==
    /\ pc = "vars"
    /\ model' = [model EXCEPT !.constrs = [e \in DOMAIN lhs |-> toGRBLinExpression(lhs[e])]]
    /\ pc' = "constrs"
    /\ UNCHANGED <<p, last, graph, RS, overload, lhs, solution,
                   singleQubitLayer, readIdx, result, threw, outcome>>

\* model.optimize(); if (model.get(GRB_IntAttr_Status) != 2) return std::nullopt
OptimizeInfeasible ==
    /\ pc = "constrs"
    /\ Status(model) # StatusOptimal
    /\ result' = nullopt
    /\ pc' = "returned"
    /\ UNCHANGED <<p, last, graph, RS, overload, lhs, model, solution,
                   singleQubitLayer, readIdx, threw, outcome>>

\* model.optimize() with status 2: the solver holds one of the feasible
\* points; singleQubitLayer is created with numQubits default gates
OptimizeFeasible ==
    /\ pc = "constrs"
    /\ Status(model) = StatusOptimal
    /\ \E a \in FeasiblePoints(model) :
          /\ solution' = a
          /\ singleQubitLayer' = [k \in 1 .. graph.n |-> DefaultGate]
          /\ readIdx' = 0
          /\ pc' = "readback"
    /\ UNCHANGED <<p, last, graph, RS, overload, lhs, model, result, threw, outcome>>

\* one iteration of the read-back loop
ReadBack ==
    /\ pc = "readback"
    /\ readIdx < graph.n
    /\ singleQubitLayer' =
          [singleQubitLayer EXCEPT ![readIdx + 1] =
                                      BinaryCliffordGate(solution[readIdx + 1])]
    /\ readIdx' = readIdx + 1
    /\ UNCHANGED <<p, last, graph, RS, overload, pc, lhs, model, solution,
                   result, threw, outcome>>

\* return singleQubitLayer
ReturnLayer ==
    /\ pc = "readback"
    /\ readIdx = graph.n
    /\ result' = Some(singleQubitLayer)
    /\ pc' = "returned"
    /\ UNCHANGED <<p, last, graph, RS, overload, lhs, model, solution,
                   singleQubitLayer, readIdx, threw, outcome>>

\* any solver call inside the try block raises GRBException (or anything else)
SolverThrows ==
    /\ pc \in {"try", "env", "vars", "constrs", "readback"}
    /\ threw' = TRUE
    /\ pc' = "catch"
    /\ UNCHANGED <<p, last, graph, RS, overload, lhs, model, solution,
                   singleQubitLayer, readIdx, result, outcome>>

\* the catch clauses fall through to the final return std::nullopt
CatchReturnsLayer ==
    /\ pc = "catch"
    /\ result' = Some(singleQubitLayer)
    /\ pc' = "returned"
    /\ UNCHANGED <<p, last, graph, RS, overload, lhs, model, solution,
                   singleQubitLayer, readIdx, threw, outcome>>
Catch ==
    /\ pc = "catch"
    /\ result' = nullopt
    /\ pc' = "returned"
    /\ UNCHANGED <<p, last, graph, RS, overload, lhs, model, solution,
                   singleQubitLayer, readIdx, threw, outcome>>

\* the caller records what the call reported; the locals of the call are gone
Finish ==
    /\ pc = "returned"
    /\ outcome' = [outcome EXCEPT ![overload] =
                      [report |-> IF threw THEN "error"
                                  ELSE IF ~result.has_value THEN "nosolution"
                                  ELSE "found",
                       numEqs |-> Cardinality(DOMAIN lhs)]]
    /\ overload' = "none"
    /\ pc' = "idle"
    /\ lhs' = <<>>
    /\ model' = EmptyModel
    /\ solution' = <<>>
    /\ singleQubitLayer' = <<>>
    /\ readIdx' = 0
    /\ result' = nullopt
    /\ threw' = FALSE
    /\ UNCHANGED <<p, last, graph, RS>>

Next ==
    \/ CallFixed
    \/ CallDynamic
    \/ StartEnv
    \/ AddVars
    \/ AddConstrs
    \/ OptimizeInfeasible
    \/ OptimizeFeasible
    \/ ReadBack
    \/ ReturnLayer
    \/ SolverThrows
    \/ Catch
    \/ Finish


(***************************************************************************)
(* Inputs of findHTCircuit                                                 *)
(***************************************************************************)
\* largest number of qubits and of operators of the exhaustive inputs
MaxQubits == 2
MaxOps == 2
\* number of qubits of the graph-state inputs with two-digit qubit indices
BigQubits == 11

Edges(n) == {e \in (0 .. (n - 1)) \X (0 .. (n - 1)) : e[1] < e[2]}

\* Graph: n vertices, symmetric 0/1 adjacency matrix with zero diagonal
GraphOf(n, E) ==
    [n |-> n,
     adj |-> [a \in 0 .. (n - 1) |-> [b \in 0 .. (n - 1) |->
                 IF <<a, b>> \in E \/ <<b, a>> \in E THEN 1 ELSE 0]]]

PathGraph(n) == GraphOf(n, {e \in Edges(n) : e[2] = e[1] + 1})

\* the string with the single character c at qubit k
SingleString(n, k, c) == [t \in 1 .. n |-> IF t = k + 1 THEN c ELSE "I"]

\* the canonical generator X_k Z_N(k) of the graph state, with X and Z
\* exchanged on the qubits of H
CanonicalString(g, k, H) ==
    [t \in 1 .. g.n |->
        LET q == t - 1
        IN  IF q = k THEN (IF q \in H THEN "Z" ELSE "X")
            ELSE IF g.adj[k][q] = 1 THEN (IF q \in H THEN "X" ELSE "Z")
            ELSE "I"]

GeneratorStrings(g) ==
    {SingleString(g.n, k, c) : k \in 0 .. (g.n - 1), c \in {"X", "Y", "Z"}}
        \cup {CanonicalString(g, k, H) : k \in 0 .. (g.n - 1), H \in {{}, {0}}}

PauliIdle ==
    /\ p = DefaultPauli
    /\ last = [op |-> "none"]

Init ==
    /\ \E n \in 1 .. MaxQubits : \E E \in SUBSET Edges(n) :
          /\ graph = GraphOf(n, E)
          /\ \E m \in 1 .. MaxOps : \E strs \in [1 .. m -> GeneratorStrings(GraphOf(n, E))] :
                RS = [j \in 1 .. m |-> PauliFromString(strs[j])]
    /\ HTIdle
    /\ PauliIdle

InitBig ==
    /\ graph = PathGraph(BigQubits)
    /\ \E H \in SUBSET {1, BigQubits - 1} :
          RS = [j \in 1 .. BigQubits |->
                   PauliFromString(CanonicalString(PathGraph(BigQubits), j - 1, H))]
    /\ HTIdle
    /\ PauliIdle

Spec == Init /\ [][Next]_vars

SpecBig == InitBig /\ [][Next]_vars

(***************************************************************************)
(* Inputs of the Pauli specification                                       *)
(***************************************************************************)
PauliAlphabet == {"I", "X", "Y", "Z"}
PhasePrefixes == {<<>>, <<"i">>, <<"-">>, <<"-", "i">>}
OperatorStrings(n) == [1 .. n -> PauliAlphabet]
PauliStrings(n) == {pre \o str : pre \in PhasePrefixes, str \in OperatorStrings(n)}
\* the phase a prefix denotes
PrefixPhase(pre) ==
    CASE pre = <<>> -> 0
      [] pre = <<"i">> -> 1
      [] pre = <<"-">> -> 2
      [] pre = <<"-", "i">> -> 3

(***************************************************************************)
(* The Pauli specification: one operator, built from a string, then        *)
(* mutated, formatted, parsed and compared.  last records the operation    *)
(* that produced the current state.                                        *)
(***************************************************************************)
InitPauli ==
    \E n \in 1 .. MaxLen : \E pre \in PhasePrefixes : \E str \in OperatorStrings(n) :
        /\ p = PauliFromString(pre \o str)
        /\ last = [op |-> "Pauli", prefix |-> pre, str |-> str]
        /\ graph = GraphOf(1, {})
        /\ RS = <<>>
        /\ HTIdle

SetX(qubit, value) ==
    /\ p' = setX(p, qubit, value)
    /\ last' = [op |-> "setX", qubit |-> qubit, value |-> value, before |-> p]
    /\ UNCHANGED htVars

SetZ(qubit, value) ==
    /\ p' = setZ(p, qubit, value)
    /\ last' = [op |-> "setZ", qubit |-> qubit, value |-> value, before |-> p]
    /\ UNCHANGED htVars

IncreasePhase(phaseInc) ==
    /\ p' = increasePhase(p, phaseInc)
    /\ last' = [op |-> "increasePhase", value |-> phaseInc, before |-> p]
    /\ UNCHANGED htVars

DecreasePhase(phaseDec) ==
    /\ p' = decreasePhase(p, phaseDec)
    /\ last' = [op |-> "decreasePhase", value |-> phaseDec, before |-> p]
    /\ UNCHANGED htVars

Format ==
    /\ last' = [op |-> "format", text |-> FormatPauli(p)]
    /\ UNCHANGED <<p, htVars>>

Parse ==
    /\ last.op = "format"
    /\ last' = [op |-> "parse", text |-> last.text,
                parsed |-> PauliFromString(last.text)]
    /\ UNCHANGED <<p, htVars>>

Commutator(other) ==
    /\ last' = [op |-> "commutator", other |-> other,
                result |-> commutator(p, other),
                reverse |-> commutator(other, p)]
    /\ UNCHANGED <<p, htVars>>

NextPauli ==
    \/ \E qubit \in 0 .. (p.n - 1) : \E value \in {0, 1} : SetX(qubit, value)
    \/ \E qubit \in 0 .. (p.n - 1) : \E value \in {0, 1} : SetZ(qubit, value)
    \/ \E phaseInc \in 1 .. 3 : IncreasePhase(phaseInc)
    \/ \E phaseDec \in 1 .. 3 : DecreasePhase(phaseDec)
    \/ Format
    \/ Parse
    \/ \E str \in PauliStrings(p.n) : Commutator(PauliFromString(str))

SpecPauli == InitPauli /\ [][NextPauli]_vars



(***************************************************************************)
(* Reference notions used to state the claims                              *)
(***************************************************************************)
\* number of qubits on which op is Y
NumY(op) == Cardinality({q \in 0 .. (op.n - 1) : x(op, q) = 1 /\ z(op, q) = 1})

\* the single-qubit Pauli of op at qubit q, as a character
PauliAt(op, q) ==
    IF x(op, q) = 1 THEN (IF z(op, q) = 1 THEN "Y" ELSE "X")
    ELSE (IF z(op, q) = 1 THEN "Z" ELSE "I")

\* positions at which a and b carry different non-identity Paulis
AntiCommutingPositions(a, b) ==
    {q \in 0 .. (a.n - 1) :
        /\ PauliAt(a, q) # "I"
        /\ PauliAt(b, q) # "I"
        /\ PauliAt(a, q) # PauliAt(b, q)}

\* sum over k < upto of Adjacency[qi][k] * (axx_k * RS[j].x(k) + axz_k * RS[j].z(k))
RECURSIVE NeighbourSum(_, _, _, _, _, _)
NeighbourSum(g, rs, gates, qi, j, upto) ==
    IF upto = 0 THEN 0
    ELSE LET k == upto - 1
         IN  NeighbourSum(g, rs, gates, qi, j, k)
               + g.adj[qi][k] * (gates[k + 1].axx * x(rs[j + 1], k)
                                   + gates[k + 1].axz * z(rs[j + 1], k))

\* the left-hand side of the defining equation of qubit qi and generator j
DefiningSum(g, rs, gates, qi, j) ==
    NeighbourSum(g, rs, gates, qi, j, g.n)
        + gates[qi + 1].azx * x(rs[j + 1], qi)
        + gates[qi + 1].azz * z(rs[j + 1], qi)

SatisfiesSystem(g, rs, gates) ==
    \A qi \in 0 .. (g.n - 1) : \A j \in 0 .. (Len(rs) - 1) :
        DefiningSum(g, rs, gates, qi, j) % 2 = 0

Symplectic(gate) == (gate.axx * gate.azz + gate.axz * gate.azx) % 2 = 1

\* the solver variables (block, qubit) that carry a non-zero coefficient in
\* the defining equation of qubit qi and generator j, in the order of the sum
ExpectedVars(g, rs, qi, j) ==
    LET all == [t \in 1 .. (2 * g.n + 2) |->
                   IF t <= 2 * g.n
                   THEN LET k == (t - 1) \div 2
                        IN  IF (t - 1) % 2 = 0
                            THEN <<g.adj[qi][k] * x(rs[j + 1], k), <<0, k>> >>
                            ELSE <<g.adj[qi][k] * z(rs[j + 1], k), <<1, k>> >>
                   ELSE IF t = 2 * g.n + 1
                   THEN <<x(rs[j + 1], qi), <<2, qi>> >>
                   ELSE <<z(rs[j + 1], qi), <<3, qi>> >>]
        kept == SelectSeq(all, IsNonZero)
    IN  [t \in 1 .. Len(kept) |-> kept[t][2]]

\* The assignments of the first k qubits, each an invertible matrix over
\* GF(2), that make every equation they cover even
RECURSIVE EvenAssignments(_, _, _)
EvenAssignments(eqs, ready, k) ==
    IF k = 0 THEN {<<>>}
    ELSE {a \in {Append(b, v) : b \in EvenAssignments(eqs, ready, k - 1),
                                v \in {w \in BinaryValues :
                                         (w[1] * w[4] + w[2] * w[3]) % 2 = 1}} :
             \A e \in DOMAIN eqs :
                 ready[e] = k - 1 =>
                     ExprValue(a, [const |-> 0, vars |-> eqs[e]]) % 2 = 0}

\* some per-qubit invertible assignment makes every (qubit, generator) equation even
SystemSatisfiable(g, rs) ==
    LET eqs == [e \in (0 .. (g.n - 1)) \X (0 .. (Len(rs) - 1)) |->
                   ExpectedVars(g, rs, e[1], e[2])]
        ready == [e \in DOMAIN eqs |->
                     MaxIndex([vars |-> eqs[e]], Len(eqs[e]))]
    IN  EvenAssignments(eqs, ready, g.n) # {}

(***************************************************************************)
(* Claims                                                                  *)
(***************************************************************************)

\* C1: whenever findHTCircuit returns a gate list, the returned bits make
\* the defining sum of every qubit i and every generator j of RS even.
C1_ReturnedGatesSatisfySystem ==
    (pc = "returned" /\ result.has_value)
        => SatisfiesSystem(graph, RS, result.value)

\* C2: every gate descriptor of a returned list satisfies
\* axx*azz + axz*azx = 1 (mod 2), and the integer constraint over binary
\* variables admits exactly the six invertible 2x2 matrices over GF(2).
C2_SymplecticGates ==
    /\ (pc = "returned" /\ result.has_value)
          => /\ Len(result.value) = graph.n
             /\ \A k \in 1 .. graph.n : Symplectic(result.value[k])
    /\ GateChoices = {v \in BinaryValues : (v[1] * v[4] + v[2] * v[3]) % 2 = 1}
    /\ Cardinality(GateChoices) = 6

\* C2 witness: a returned list for a graph with an edge that holds a gate
\* exchanging X and Z.
C2_Witness ==
    /\ pc = "returned"
    /\ result.has_value
    /\ graph.n = 2
    /\ graph.adj[0][1] = 1
    /\ result.value[1] = [axx |-> 0, axz |-> 1, azx |-> 1, azz |-> 0]

\* C3: when the solver raises nothing, findHTCircuit returns a gate list
\* if and only if some per-qubit invertible binary assignment makes every
\* (qubit, generator) equation even.
C3_ReturnsIffSatisfiable ==
    (pc = "returned" /\ ~threw)
        => (result.has_value <=> SystemSatisfiable(graph, RS))

\* C4: for the same graph and generators (m need not equal n) the fixed-size
\* and the dynamic overload build the same n*m equations and report the
\* same feasibility outcome.
C4_OverloadsAgree ==
    (/\ outcome.fixed.report \in {"found", "nosolution"}
     /\ outcome.dynamic.report \in {"found", "nosolution"})
        => /\ outcome.fixed.report = outcome.dynamic.report
           /\ outcome.fixed.numEqs = graph.n * Len(RS)
           /\ outcome.dynamic.numEqs = graph.n * Len(RS)

\* C5: if the solver raises an error anywhere inside the call, the call
\* does not propagate it: control reaches the catch clause, the call
\* returns, and what it returns is the empty result of the infeasible case,
\* never a gate list.
C5_SolverErrorGivesNoSolution ==
    /\ threw => pc \in {"catch", "returned"}
    /\ pc = "catch" => ENABLED Catch
    /\ (threw /\ pc = "returned") => result = nullopt

\* C5 witness: the solver raised during read-back, after at least one gate
\* had been stored in the list, and the call has returned.
C5_Witness ==
    /\ threw
    /\ pc = "returned"
    /\ readIdx >= 1
    /\ readIdx < graph.n
    /\ singleQubitLayer[1] # DefaultGate

\* C6: formatting an operator as its getPhase() prefix followed by
\* toString() and parsing the text gives back an equal operator (r, s, n,
\* phase), and the getPhase() of a parsed operator is the phase its prefix
\* denotes, however many Y it holds.
C6_RoundTrip ==
    /\ last.op = "parse" => last.parsed = p
    /\ last.op = "Pauli" => /\ getPhase(p) = PrefixPhase(last.prefix)
                            /\ toString(p) = last.str

\* C6 witness: an operator with two Y and phase -i has been formatted and parsed.
C6_Witness ==
    /\ last.op = "parse"
    /\ NumY(p) >= 2
    /\ getPhase(p) = 3
    /\ Len(last.text) = 4

\* C7 as stated: getPhase() is getXZPhase() minus the parity of
\* popcount(r & s), mod 4.
C7_ParityCorrection ==
    getPhase(p) = (getXZPhase(p) - (popcount(BitAnd(p.r, p.s)) % 2)) % 4

\* C7 amended: getPhase() is getXZPhase() minus the number of Y components
\* (popcount(r & s)), mod 4.
C7_CountCorrection ==
    getPhase(p) = (getXZPhase(p) - NumY(p)) % 4

\* C7 witness: an operator with two or more Y components.
C7_Witness ==
    /\ last.op = "Pauli"
    /\ NumY(p) >= 2
    /\ getXZPhase(p) # getPhase(p)

\* C8: setZ(q, v) leaves z(q) = v and changes no other Z bit, no X bit,
\* neither n nor the phase; symmetrically for setX(q, v).
C8_SettersWriteBit ==
    /\ last.op = "setZ" =>
          /\ z(p, last.qubit) = last.value
          /\ \A q \in Word \ {last.qubit} : z(p, q) = z(last.before, q)
          /\ p.r = last.before.r
          /\ p.n = last.before.n
          /\ p.phase = last.before.phase
    /\ last.op = "setX" =>
          /\ x(p, last.qubit) = last.value
          /\ \A q \in Word \ {last.qubit} : x(p, q) = x(last.before, q)
          /\ p.s = last.before.s
          /\ p.n = last.before.n
          /\ p.phase = last.before.phase

\* C9: commutator(p1, p2) is 1 exactly when the number of positions with
\* different non-identity Paulis is odd; it is symmetric, 0 on (p, p) and
\* independent of the phases.
C9_Commutator ==
    /\ last.op = "commutator" =>
          /\ last.result = Cardinality(AntiCommutingPositions(p, last.other)) % 2
          /\ last.result = last.reverse
          /\ \A k \in 0 .. 3 :
                commutator(increasePhase(p, k), last.other) = last.result
    /\ commutator(p, p) = 0

\* C9 witness: two anticommuting two-qubit operators with different phases.
C9_Witness ==
    /\ last.op = "commutator"
    /\ last.result = 1
    /\ p.n = 2
    /\ Cardinality(AntiCommutingPositions(p, last.other)) = 1
    /\ NumY(p) = 1
    /\ p.phase # last.other.phase

\* C10: every symbol <block><decimal qubit index> of an equation is
\* translated to the solver variable created for that block and qubit, and
\* distinct symbols are translated to distinct solver variables.
C10_SymbolsDecodeToTheirVariables ==
    pc = "constrs" =>
        /\ \A e \in DOMAIN lhs :
              model.constrs[e].vars = ExpectedVars(graph, RS, e[1], e[2])
        /\ \A b1, b2 \in Blocks : \A q1, q2 \in 0 .. (graph.n - 1) :
              <<b1, q1>> # <<b2, q2>>
                  => getVar(SymbolName(b1, q1)) # getVar(SymbolName(b2, q2))

=============================================================================
